---------------------------- MODULE Spec2Model ----------------------------
(***************************************************************************)
(* Meeting coordination core of dnd_meet: the meeting-suggestion           *)
(* lifecycle (server/routes.ts over server/storage.ts), the participant    *)
(* roster, the response log and the conflict table, as state machines      *)
(* over the tables of the shared schema.                                   *)
(*                                                                         *)
(* Tables are modelled by their rows.  A table without a uniqueness        *)
(* constraint (meeting_participants, chat_group_members, meeting_tags) is  *)
(* a bag of rows: the serial id and the timestamp of a row are left out,   *)
(* its multiplicity is kept.  meeting_responses is a sequence in createdAt *)
(* order.  Serial primary keys are counters that never hand out a value    *)
(* twice.                                                                  *)
(***************************************************************************)
EXTENDS Integers, Sequences, FiniteSets, Bags, TLC

(***************************************************************************)
(* Bounds of the model.                                                    *)
(***************************************************************************)
\* serial ids handed out by meeting_suggestions in the lifecycle specifications
MaxMeetings == 2
\* serial ids handed out by meeting_suggestions in the quota specification
MaxQuotaMeetings == 5
\* rows of meeting_responses
MaxResponses == 1
\* rows of meeting_tags
MaxTagRows == 1
\* rows of chat_group_members
MaxMemberRows == 2
\* how far below zero chat_groups.member_count is followed
MaxUnderflow == 1
\* serial ids handed out by chat_groups
MaxGroups == 1
\* connections that carry requests at the same time
MaxRequests == 2
\* rows of meeting_responses in the response-log specification
MaxLogged == 2
\* serial ids handed out by meeting_suggestions in the author specification
MaxEdited == 1
\* serial ids handed out by events
MaxEvents == 2
\* serial ids handed out by conflicts
MaxConflicts == 2
\* instants of the time line of events
MaxTime == 3

(***************************************************************************)
(* Program constants.                                                      *)
(***************************************************************************)
\* routes.ts: if (userCreatedMeetings.length >= 4)
QuotaLimit == 4
\* routes.ts: if (userCreatedGroups.length >= 4)
GroupQuotaLimit == 4

Users == {"A", "B"}
\* meetingSuggestions.groupId is nullable: 0 stands for null
NoGroup == 0
TagIds == {1}
ResponseTypes == {"accepted", "rejected", "counter"}
\* the image of a create request: absent, or present with the upload
\* succeeding or failing (the media store is an external collaborator)
Images == {"none", "ok", "fail"}
\* the title of a meeting: the one it is created with and the one an
\* update carries (description, location, proposedDateTime and duration
\* travel with it)
Titles == {"first", "second"}

VARIABLES
    meetingSuggestions,   \* id -> row of meeting_suggestions
    nextMeetingId,        \* the serial of meeting_suggestions.id
    meetingParticipants,  \* bag of [meetingId, userId]
    meetingResponses,     \* sequence of [meetingId, userId, responseType]
    meetingTags,          \* bag of [meetingId, tagId]
    chatGroups,           \* id -> row of chat_groups
    nextGroupId,          \* the serial of chat_groups.id
    chatGroupMembers,     \* bag of [groupId, userId]
    events,               \* id -> row of events
    nextEventId,          \* the serial of events.id
    conflicts,            \* id -> row of conflicts
    nextConflictId,       \* the serial of conflicts.id
    requests,             \* the requests in flight, by connection
    last                  \* the last request and the response it got

meetingVars == <<meetingSuggestions, nextMeetingId, meetingParticipants,
                 meetingResponses, meetingTags>>
groupVars == <<chatGroups, nextGroupId, chatGroupMembers>>
conflictVars == <<events, nextEventId, conflicts, nextConflictId>>

(***************************************************************************)
(* Rows and queries.                                                       *)
(***************************************************************************)
ParticipantRow(meetingId, userId) == [meetingId |-> meetingId, userId |-> userId]
MemberRow(groupId, userId) == [groupId |-> groupId, userId |-> userId]
TagRow(meetingId, tagId) == [meetingId |-> meetingId, tagId |-> tagId]

\* DELETE FROM <bag table> WHERE keep(row) is false
DeleteWhere(bag, Gone(_)) ==
    [r \in {x \in DOMAIN bag : ~Gone(x)} |-> bag[r]]

\* uniqueMeetings.sort(...): a sequence of ids, largest (latest created)
\* first; createdAt grows with the serial id
RECURSIVE SortDesc(_)
SortDesc(s) ==
    IF s = <<>> THEN <<>>
    ELSE LET i == CHOOSE k \in 1..Len(s) : \A j \in 1..Len(s) : s[j] <= s[k]
         IN  <<s[i]>> \o SortDesc(SubSeq(s, 1, i - 1) \o SubSeq(s, i + 1, Len(s)))

SeqToSet(s) == {s[i] : i \in 1..Len(s)}

\* storage.getMeetingSuggestion: the row, or undefined
HasMeeting(meetingId) == meetingId \in DOMAIN meetingSuggestions

\* the first query of getAllMeetingsForUser: meeting_suggestions joined to
\* chat_groups and chat_group_members; one result row per membership row
groupMeetings(userId) ==
    [m \in {x \in DOMAIN meetingSuggestions :
              /\ meetingSuggestions[x].groupId \in DOMAIN chatGroups
              /\ BagIn(MemberRow(meetingSuggestions[x].groupId, userId),
                       chatGroupMembers)}
       |-> CopiesIn(MemberRow(meetingSuggestions[m].groupId, userId),
                    chatGroupMembers)]

\* the second query of getAllMeetingsForUser
userMeetingsNone(userId) == {}
userMeetings(userId) ==
    {m \in DOMAIN meetingSuggestions :
        meetingSuggestions[m].suggestedById = userId}

\* the result rows of a query as a sequence of ids: each id of S as often
\* as count says
RECURSIVE ResultRows(_, _)
ResultRows(S, count) ==
    IF S = {} THEN <<>>
    ELSE LET x == CHOOSE y \in S : \A z \in S : y <= z
         IN  [i \in 1..count[x] |-> x] \o ResultRows(S \ {x}, count)

\* const allMeetings = [...groupMeetings, ...userMeetings]
allMeetings(userId) ==
    ResultRows(DOMAIN groupMeetings(userId), groupMeetings(userId))
    \o ResultRows(userMeetings(userId), [m \in userMeetings(userId) |-> 1])

\* Array.from(new Map(seq.map(m => [m.id, m])).values()): one entry per id,
\* in the order the ids first occur
RECURSIVE MapValues(_)
MapValues(seq) ==
    IF seq = <<>> THEN <<>>
    ELSE <<Head(seq)>> \o MapValues(SelectSeq(Tail(seq), LAMBDA x : x # Head(seq)))

uniqueMeetingsAll(userId) == allMeetings(userId)
uniqueMeetings(userId) == MapValues(allMeetings(userId))

getAllMeetingsForUser(userId) == SortDesc(uniqueMeetings(userId))

\* existingMeetings.filter(m => m.suggestedById === userId)
userCreatedMeetings(userId) ==
    SelectSeq(getAllMeetingsForUser(userId),
              LAMBDA m : meetingSuggestions[m].suggestedById = userId)

getMeetingParticipants(meetingId) ==
    {r \in DOMAIN meetingParticipants : r.meetingId = meetingId}

getMeetingResponses(meetingId) ==
    SelectSeq(meetingResponses, LAMBDA r : r.meetingId = meetingId)

RowsOf(meetingId, userId) ==
    CopiesIn(ParticipantRow(meetingId, userId), meetingParticipants)

\* the number of suggestions a user has authored, read off the table
Owned(userId) ==
    Cardinality({m \in DOMAIN meetingSuggestions :
                    meetingSuggestions[m].suggestedById = userId})

(***************************************************************************)
(* The response of a request: the handler, the caller, the meeting (or     *)
(* group) named, the HTTP status, what the request found before it acted   *)
(* (prior) and the participants array it carried.  A specification records *)
(* in `last` the responses its properties read and NoResponse for the      *)
(* other requests.                                                         *)
(***************************************************************************)
Response(op, userId, meetingId, status, prior, listed) ==
    [op |-> op, userId |-> userId, meetingId |-> meetingId, status |-> status,
     prior |-> prior, listed |-> listed]

NoResponse == Response("none", "none", 0, 0, 0, <<>>)

\* a request served from receipt to response with no other request in
\* flight: its response is recorded, or dropped, or the one recorded stays
Saw(response) == last' = response /\ UNCHANGED requests
Unseen == last' = NoResponse /\ UNCHANGED requests
Kept == UNCHANGED <<last, requests>>

\* a connection: the handler it runs, the await it stands at, and the
\* locals of the handler (userId, the meeting id, the count it read)
Request(op, pc, userId, meetingId, count) ==
    [op |-> op, pc |-> pc, userId |-> userId, meetingId |-> meetingId,
     count |-> count]

Connections == 1..MaxRequests

Init ==
    /\ meetingSuggestions = <<>>
    /\ nextMeetingId = 1
    /\ meetingParticipants = EmptyBag
    /\ meetingResponses = <<>>
    /\ meetingTags = EmptyBag
    /\ chatGroups = <<>>
    /\ nextGroupId = 1
    /\ chatGroupMembers = EmptyBag
    /\ events = <<>>
    /\ nextEventId = 1
    /\ conflicts = <<>>
    /\ nextConflictId = 1
    /\ requests = [c \in Connections |-> Request("none", "done", "none", 0, 0)]
    /\ last = NoResponse

(***************************************************************************)
(* Storage operations (server/storage.ts), as functions of the tables.     *)
(***************************************************************************)
MeetingRow(suggestedById, groupId, status) ==
    [suggestedById |-> suggestedById, groupId |-> groupId, status |-> status,
     backgroundImageUrl |-> FALSE, title |-> "first", isPrivate |-> FALSE]

\* db.insert(meetingSuggestions).values(...).returning()
createMeetingSuggestion(suggestions, id, row) == (id :> row) @@ suggestions

\* db.update(meetingSuggestions).set(data).where(id = meetingId);
\* updateMeetingSuggestionEvery is the update without the where clause
updateMeetingSuggestionEvery(suggestions, meetingId, field, value) ==
    [m \in DOMAIN suggestions |->
        [f \in DOMAIN suggestions[m] |-> IF f = field THEN value ELSE suggestions[m][f]]]
updateMeetingSuggestion(suggestions, meetingId, field, value) ==
    IF meetingId \in DOMAIN suggestions
    THEN [suggestions EXCEPT ![meetingId] =
            [f \in DOMAIN @ |-> IF f = field THEN value ELSE @[f]]]
    ELSE suggestions

\* db.insert(meetingParticipants).values(participant): no uniqueness check
addMeetingParticipant(participants, meetingId, userId) ==
    participants (+) SetToBag({ParticipantRow(meetingId, userId)})

\* the four deletes of deleteMeetingSuggestion, one per table
deleteParticipantsOf(participants, meetingId) ==
    DeleteWhere(participants, LAMBDA r : r.meetingId = meetingId)

deleteResponsesOf(responses, meetingId) ==
    SelectSeq(responses, LAMBDA r : r.meetingId # meetingId)

deleteTagsOfNone(tags, meetingId) == tags
deleteTagsOf(tags, meetingId) ==
    DeleteWhere(tags, LAMBDA r : r.meetingId = meetingId)

deleteSuggestionRowNone(suggestions, meetingId) == suggestions
deleteSuggestionRow(suggestions, meetingId) ==
    [m \in DOMAIN suggestions \ {meetingId} |-> suggestions[m]]

\* joinMeeting: insert unless a row of (meetingId, userId) exists
joinMeeting(participants, meetingId, userId) ==
    IF ~BagIn(ParticipantRow(meetingId, userId), participants)
    THEN addMeetingParticipant(participants, meetingId, userId)
    ELSE participants

\* leaveMeeting: delete every row of (meetingId, userId)
leaveMeeting(participants, meetingId, userId) ==
    DeleteWhere(participants,
                LAMBDA r : r.meetingId = meetingId /\ r.userId = userId)

\* respondToMeeting: a plain insert; respondToMeetingUpsert is the insert
\* keyed on (meetingId, userId) that the table has no constraint for
respondToMeetingUpsert(responses, meetingId, userId, responseType) ==
    Append(SelectSeq(responses,
                     LAMBDA r : ~(r.meetingId = meetingId /\ r.userId = userId)),
           [meetingId |-> meetingId, userId |-> userId,
            responseType |-> responseType])
respondToMeeting(responses, meetingId, userId, responseType) ==
    Append(responses, [meetingId |-> meetingId, userId |-> userId,
                       responseType |-> responseType])

\* the loop of POST /api/meetings over req.body.participants; the insert of
\* an id that is not in users violates the foreign key of user_id and
\* throws, which ends the loop
addListed(participants, meetingId, userId, listed) ==
    LET unknown == {i \in 1..Len(listed) : listed[i] \notin Users}
        \* the entries the loop reaches before it throws
        reached == IF unknown = {} THEN 1..Len(listed)
                   ELSE 1..((CHOOSE i \in unknown : \A j \in unknown : i <= j) - 1)
        \* if (participantId !== userId) addMeetingParticipant(...)
        added == {i \in reached : listed[i] # userId}
        rows == {ParticipantRow(meetingId, listed[i]) : i \in added}
    IN  participants (+)
            [r \in rows |->
                Cardinality({i \in added : ParticipantRow(meetingId, listed[i]) = r})]

\* the child rows of a meeting: participants, responses and tags
ChildRows(meetingId) ==
    BagCardinality(DeleteWhere(meetingParticipants, LAMBDA r : r.meetingId # meetingId))
    + Len(getMeetingResponses(meetingId))
    + BagCardinality(DeleteWhere(meetingTags, LAMBDA r : r.meetingId # meetingId))

(***************************************************************************)
(* Request handlers (server/routes.ts), each run from request to response  *)
(* with no other request in between.  For each handler: the status it      *)
(* answers with, the response, and its effect on the tables.               *)
(***************************************************************************)
\* if (userCreatedMeetings.length >= 4)
QuotaReachedOffByOne(count) == count > QuotaLimit
QuotaReached(count) == count >= QuotaLimit

\* POST /api/meetings
CreateMeetingStatus(userId, listed, image) ==
    IF QuotaReached(Len(userCreatedMeetings(userId))) THEN 400
    ELSE IF image = "fail" THEN 500
    ELSE IF SeqToSet(listed) \subseteq Users THEN 200
    ELSE 500

CreateMeetingResponse(userId, listed, image) ==
    Response("createMeeting", userId,
             IF CreateMeetingStatus(userId, listed, image) = 400 THEN 0 ELSE nextMeetingId,
             CreateMeetingStatus(userId, listed, image), Owned(userId), listed)

CreateMeeting(userId, listed, chatGroupId, image) ==
    LET id == nextMeetingId
        row == MeetingRow(userId, chatGroupId, "accepted")
        inserted == createMeetingSuggestion(meetingSuggestions, id, row)
    IN  IF CreateMeetingStatus(userId, listed, image) = 400
        THEN UNCHANGED <<meetingVars, groupVars, conflictVars>>
        ELSE IF image = "fail"
        THEN \* the upload throws: compensating deleteMeetingSuggestion
             /\ meetingSuggestions' = deleteSuggestionRow(inserted, id)
             /\ meetingParticipants' = deleteParticipantsOf(meetingParticipants, id)
             /\ meetingResponses' = deleteResponsesOf(meetingResponses, id)
             /\ meetingTags' = deleteTagsOf(meetingTags, id)
             /\ nextMeetingId' = id + 1
             /\ UNCHANGED <<groupVars, conflictVars>>
        ELSE /\ meetingSuggestions' =
                    IF image = "ok"
                    THEN updateMeetingSuggestion(inserted, id, "backgroundImageUrl", TRUE)
                    ELSE inserted
             /\ meetingParticipants' =
                    addListed(addMeetingParticipant(meetingParticipants, id, userId),
                              id, userId, listed)
             /\ nextMeetingId' = id + 1
             /\ UNCHANGED <<meetingResponses, meetingTags, groupVars, conflictVars>>

\* POST /api/chat-groups/:id/meetings
CreateGroupMeetingStatus(groupId) ==
    \* the insert violates the foreign key of group_id when the group is missing
    IF groupId \notin DOMAIN chatGroups THEN 400 ELSE 201

CreateGroupMeetingResponse(userId, groupId) ==
    Response("createGroupMeeting", userId,
             IF CreateGroupMeetingStatus(groupId) = 400 THEN 0 ELSE nextMeetingId,
             CreateGroupMeetingStatus(groupId), Owned(userId), <<>>)

CreateGroupMeeting(userId, groupId, status) ==
    IF CreateGroupMeetingStatus(groupId) = 400
    THEN UNCHANGED <<meetingVars, groupVars, conflictVars>>
    ELSE /\ meetingSuggestions' =
                createMeetingSuggestion(meetingSuggestions, nextMeetingId,
                                        MeetingRow(userId, groupId, status))
         /\ nextMeetingId' = nextMeetingId + 1
         /\ UNCHANGED <<meetingParticipants, meetingResponses, meetingTags, groupVars, conflictVars>>

\* DELETE /api/meetings/:id
DeleteMeetingStatusAnyone(userId, meetingId) ==
    IF ~HasMeeting(meetingId) THEN 403 ELSE 204
DeleteMeetingStatus(userId, meetingId) ==
    IF ~HasMeeting(meetingId) \/ meetingSuggestions[meetingId].suggestedById # userId
    THEN 403 ELSE 204

DeleteMeetingResponse(userId, meetingId) ==
    Response("deleteMeeting", userId, meetingId,
             DeleteMeetingStatus(userId, meetingId), ChildRows(meetingId), <<>>)

DeleteMeeting(userId, meetingId) ==
    IF DeleteMeetingStatus(userId, meetingId) = 403
    THEN UNCHANGED <<meetingVars, groupVars, conflictVars>>
    ELSE /\ meetingParticipants' = deleteParticipantsOf(meetingParticipants, meetingId)
         /\ meetingResponses' = deleteResponsesOf(meetingResponses, meetingId)
         /\ meetingTags' = deleteTagsOf(meetingTags, meetingId)
         /\ meetingSuggestions' = deleteSuggestionRow(meetingSuggestions, meetingId)
         /\ UNCHANGED <<nextMeetingId, groupVars, conflictVars>>

\* POST /api/meetings/:id/join
JoinMeetingStatus(userId, meetingId) ==
    \* the insert violates the foreign key of meeting_id when the meeting is missing
    IF ~BagIn(ParticipantRow(meetingId, userId), meetingParticipants)
       /\ ~HasMeeting(meetingId)
    THEN 500 ELSE 200

JoinMeetingResponse(userId, meetingId) ==
    Response("joinMeeting", userId, meetingId, JoinMeetingStatus(userId, meetingId),
             RowsOf(meetingId, userId), <<>>)

JoinMeeting(userId, meetingId) ==
    IF JoinMeetingStatus(userId, meetingId) = 500
    THEN UNCHANGED <<meetingVars, groupVars, conflictVars>>
    ELSE /\ meetingParticipants' = joinMeeting(meetingParticipants, meetingId, userId)
         /\ UNCHANGED <<meetingSuggestions, nextMeetingId, meetingResponses,
                        meetingTags, groupVars, conflictVars>>

\* POST /api/meetings/:id/leave
LeaveMeetingResponse(userId, meetingId) ==
    Response("leaveMeeting", userId, meetingId, 200, RowsOf(meetingId, userId), <<>>)

\* a leave that cancels the meeting once no participant row is left, which
\* the handler does not do
LeaveMeetingCancels(userId, meetingId) ==
    /\ meetingParticipants' = leaveMeeting(meetingParticipants, meetingId, userId)
    /\ meetingSuggestions' =
            IF getMeetingParticipants(meetingId) \subseteq {ParticipantRow(meetingId, userId)}
            THEN updateMeetingSuggestion(meetingSuggestions, meetingId, "status", "cancelled")
            ELSE meetingSuggestions
    /\ UNCHANGED <<nextMeetingId, meetingResponses, meetingTags, groupVars, conflictVars>>
LeaveMeeting(userId, meetingId) ==
    /\ meetingParticipants' = leaveMeeting(meetingParticipants, meetingId, userId)
    /\ UNCHANGED <<meetingSuggestions, nextMeetingId, meetingResponses,
                   meetingTags, groupVars, conflictVars>>

\* POST /api/meetings/:id/respond and POST /api/meetings/respond
RespondToMeetingStatus(meetingId) ==
    \* the insert violates the foreign key of meeting_id when the meeting is missing
    IF ~HasMeeting(meetingId) THEN 400 ELSE 201

RespondToMeetingResponse(userId, meetingId) ==
    Response("respondToMeeting", userId, meetingId, RespondToMeetingStatus(meetingId),
             Len(meetingResponses), <<>>)

RespondToMeeting(userId, meetingId, responseType) ==
    IF RespondToMeetingStatus(meetingId) = 400
    THEN UNCHANGED <<meetingVars, groupVars, conflictVars>>
    ELSE /\ meetingResponses' =
                respondToMeeting(meetingResponses, meetingId, userId, responseType)
         /\ UNCHANGED <<meetingSuggestions, nextMeetingId, meetingParticipants,
                        meetingTags, groupVars, conflictVars>>

\* POST /api/meetings/:meetingId/tags
AddMeetingTagStatus(meetingId) ==
    IF ~HasMeeting(meetingId) THEN 400 ELSE 201

AddMeetingTag(userId, meetingId, tagId) ==
    IF AddMeetingTagStatus(meetingId) = 400
    THEN UNCHANGED <<meetingVars, groupVars, conflictVars>>
    ELSE /\ meetingTags' = meetingTags (+) SetToBag({TagRow(meetingId, tagId)})
         /\ UNCHANGED <<meetingSuggestions, nextMeetingId, meetingParticipants,
                        meetingResponses, groupVars, conflictVars>>

(***************************************************************************)
(* Chat groups.                                                            *)
(***************************************************************************)
RECURSIVE SumOver(_, _)
SumOver(S, f) ==
    IF S = {} THEN 0
    ELSE LET x == CHOOSE y \in S : TRUE IN f[x] + SumOver(S \ {x}, f)

\* getChatGroups(userId).filter(g => g.createdById === userId).length:
\* the join returns a group once per membership row of the user
userCreatedGroups(userId) ==
    LET mine == {g \in DOMAIN chatGroups : chatGroups[g].createdById = userId}
    IN  SumOver(mine, [g \in mine |-> CopiesIn(MemberRow(g, userId), chatGroupMembers)])

\* POST /api/chat-groups (createChatGroup: the group row, member_count at its
\* default of 1, and the creator's admin membership)
CreateChatGroup(userId) ==
    IF userCreatedGroups(userId) >= GroupQuotaLimit
    THEN UNCHANGED <<meetingVars, groupVars, conflictVars>>
    ELSE /\ chatGroups' = (nextGroupId :> [createdById |-> userId, memberCount |-> 1])
                            @@ chatGroups
         /\ chatGroupMembers' = chatGroupMembers (+) SetToBag({MemberRow(nextGroupId, userId)})
         /\ nextGroupId' = nextGroupId + 1
         /\ UNCHANGED <<meetingVars, conflictVars>>

\* POST /api/chat-groups/:id/join (joinChatGroup)
JoinChatGroup(userId, groupId) ==
    IF BagIn(MemberRow(groupId, userId), chatGroupMembers)
       \/ groupId \notin DOMAIN chatGroups
    THEN \* already a member, or the insert violates the foreign key of group_id
         UNCHANGED <<meetingVars, groupVars, conflictVars>>
    ELSE /\ chatGroupMembers' = chatGroupMembers (+) SetToBag({MemberRow(groupId, userId)})
         /\ chatGroups' = [chatGroups EXCEPT ![groupId].memberCount = @ + 1]
         /\ UNCHANGED <<meetingVars, conflictVars, nextGroupId>>

\* POST /api/chat-groups/:id/leave (leaveChatGroup)
LeaveChatGroup(userId, groupId) ==
    /\ chatGroupMembers' =
            DeleteWhere(chatGroupMembers,
                        LAMBDA r : r.groupId = groupId /\ r.userId = userId)
    /\ chatGroups' = IF groupId \in DOMAIN chatGroups
                     THEN [chatGroups EXCEPT ![groupId].memberCount = @ - 1]
                     ELSE chatGroups
    /\ UNCHANGED <<meetingVars, conflictVars, nextGroupId>>

\* POST /api/chat-groups/:id/members (addUserToGroup): a plain insert
AddUserToGroup(groupId, memberId) ==
    IF groupId \notin DOMAIN chatGroups
    THEN UNCHANGED <<meetingVars, groupVars, conflictVars>>
    ELSE /\ chatGroupMembers' = chatGroupMembers (+) SetToBag({MemberRow(groupId, memberId)})
         /\ UNCHANGED <<meetingVars, conflictVars, chatGroups, nextGroupId>>

(***************************************************************************)
(* Inputs.                                                                 *)
(***************************************************************************)
\* the participants arrays of a create request: empty, naming the caller,
\* naming another user, naming a user twice
ParticipantLists == {<<>>, <<"A">>, <<"B">>, <<"B", "B">>}

\* the ids a request may name: every id handed out so far and the next one
KnownMeetingIds == 1..nextMeetingId
KnownGroupIds == 1..nextGroupId

vars == <<meetingVars, groupVars, conflictVars, requests, last>>

(***************************************************************************)
(* The lifecycle specification: the roster, the response log and the tags  *)
(* of individually-scoped meetings, one request at a time.  It records the *)
(* responses of DELETE /api/meetings/:id.                                  *)
(***************************************************************************)
Next ==
    \/ \E u \in Users, listed \in ParticipantLists, image \in Images :
            /\ nextMeetingId <= MaxMeetings
            /\ CreateMeeting(u, listed, NoGroup, image)
            /\ Unseen
    \/ \E u \in Users, m \in KnownMeetingIds :
            /\ Saw(DeleteMeetingResponse(u, m))
            /\ DeleteMeeting(u, m)
    \/ \E u \in Users, m \in KnownMeetingIds : JoinMeeting(u, m) /\ Unseen
    \/ \E u \in Users, m \in KnownMeetingIds : LeaveMeeting(u, m) /\ Unseen
    \/ \E u \in Users, m \in KnownMeetingIds, t \in ResponseTypes :
            /\ Len(meetingResponses) < MaxResponses
            /\ RespondToMeeting(u, m, t)
            /\ Unseen
    \/ \E u \in Users, m \in KnownMeetingIds, t \in TagIds :
            /\ BagCardinality(meetingTags) < MaxTagRows
            /\ AddMeetingTag(u, m, t)
            /\ Unseen

Spec == Init /\ [][Next]_vars

(***************************************************************************)
(* The quota specification: suggestions created through both create        *)
(* routes, one request at a time, far enough for an author to reach the    *)
(* quota.  It records the responses of the two create routes.              *)
(***************************************************************************)
NextQuota ==
    \/ \E u \in Users, g \in {NoGroup} \cup DOMAIN chatGroups :
            /\ nextMeetingId <= MaxQuotaMeetings
            /\ Saw(CreateMeetingResponse(u, <<>>, "none"))
            /\ CreateMeeting(u, <<>>, g, "none")
    \/ \E u \in Users, g \in KnownGroupIds :
            /\ nextMeetingId <= MaxQuotaMeetings
            /\ Saw(CreateGroupMeetingResponse(u, g))
            /\ CreateGroupMeeting(u, g, "accepted")
    \/ \E u \in Users, m \in KnownMeetingIds : DeleteMeeting(u, m) /\ Unseen
    \/ \E u \in Users :
            /\ nextGroupId <= MaxGroups
            /\ CreateChatGroup(u)
            /\ Unseen

SpecQuota == Init /\ [][NextQuota]_vars

(***************************************************************************)
(* C1: a create request, through POST /api/meetings or through             *)
(* POST /api/chat-groups/:id/meetings, succeeds only while its author has  *)
(* fewer than four suggestions; the attempt at a fifth is rejected and     *)
(* inserts nothing.                                                        *)
(***************************************************************************)
QuotaOnBothCreatePaths ==
    /\ (last.op \in {"createMeeting", "createGroupMeeting"}
        /\ last.status \in {200, 201})
            => last.prior < QuotaLimit
    /\ \A u \in Users : Owned(u) <= QuotaLimit

(***************************************************************************)
(* POST /api/meetings, await by await, for requests that overlap.  The     *)
(* handler reads the author's suggestions and tests the quota, then        *)
(* inserts the suggestion, then inserts the author's participant row; no   *)
(* transaction or lock spans the three.                                    *)
(***************************************************************************)
\* a connection is free once its request has been answered, with or
\* without an error
Idle(c) == requests[c].pc \in {"done", "failed"}

\* await storage.getAllMeetingsForUser(userId) and the quota test
CreateMeetingCheckQuota(c, userId) ==
    LET count == Len(userCreatedMeetings(userId))
    IN  /\ Idle(c)
        /\ requests' = [requests EXCEPT ![c] =
                Request("createMeeting",
                        IF QuotaReached(count) THEN "done" ELSE "insert",
                        userId, 0, count)]
        /\ UNCHANGED <<meetingVars, groupVars, conflictVars, last>>

\* await storage.createMeetingSuggestion(...)
CreateMeetingInsert(c) ==
    /\ requests[c].op = "createMeeting"
    /\ requests[c].pc = "insert"
    /\ meetingSuggestions' =
            createMeetingSuggestion(meetingSuggestions, nextMeetingId,
                                    MeetingRow(requests[c].userId, NoGroup, "accepted"))
    /\ nextMeetingId' = nextMeetingId + 1
    /\ requests' = [requests EXCEPT ![c].pc = "participant",
                                    ![c].meetingId = nextMeetingId]
    /\ UNCHANGED <<meetingParticipants, meetingResponses, meetingTags, groupVars, conflictVars, last>>

\* await storage.addMeetingParticipant({meetingId: meeting.id, userId})
CreateMeetingAddAuthor(c) ==
    /\ requests[c].op = "createMeeting"
    /\ requests[c].pc = "participant"
    /\ meetingParticipants' =
            addMeetingParticipant(meetingParticipants, requests[c].meetingId,
                                  requests[c].userId)
    /\ requests' = [requests EXCEPT ![c].pc = "done"]
    /\ UNCHANGED <<meetingSuggestions, nextMeetingId, meetingResponses,
                   meetingTags, groupVars, conflictVars, last>>

(***************************************************************************)
(* The quota race specification: create requests on several connections,   *)
(* interleaved at their awaits.                                            *)
(***************************************************************************)
NextQuotaRace ==
    \/ \E c \in Connections, u \in Users :
            /\ nextMeetingId <= MaxQuotaMeetings
            /\ CreateMeetingCheckQuota(c, u)
    \/ \E c \in Connections : CreateMeetingInsert(c)
    \/ \E c \in Connections : CreateMeetingAddAuthor(c)

SpecQuotaRace == Init /\ [][NextQuotaRace]_vars

(***************************************************************************)
(* C2: create requests of one author that overlap can each pass the quota  *)
(* test before any of them inserts, so the author can end above the quota: *)
(* two requests that both read three suggestions leave five.  Every        *)
(* request that inserts has read fewer than four, and the overshoot is     *)
(* less than the number of overlapping requests.                           *)
(***************************************************************************)
QuotaRaceOvershoot ==
    /\ \A c \in Connections :
            (requests[c].op = "createMeeting" /\ requests[c].pc # "done")
                => requests[c].count < QuotaLimit
    /\ \A u \in Users : Owned(u) <= QuotaLimit + MaxRequests - 1

\* two requests of A both read three suggestions and both inserted: five
QuotaRaceOvershootWitness ==
    /\ Owned("A") = QuotaLimit + 1
    /\ \E c, d \in Connections :
            /\ c # d
            /\ \A x \in {c, d} :
                    /\ requests[x] \in [op : {"createMeeting"}, pc : {"participant", "done"},
                                         userId : {"A"}, meetingId : DOMAIN meetingSuggestions,
                                         count : {QuotaLimit - 1}]

(***************************************************************************)
(* The roster specification: the participant rows of individually-scoped   *)
(* meetings under create, join, leave and delete, one request at a time.   *)
(* It records the responses of create and join.                            *)
(***************************************************************************)
NextRoster ==
    \/ \E u \in Users, listed \in ParticipantLists :
            /\ nextMeetingId <= MaxMeetings
            /\ Saw(CreateMeetingResponse(u, listed, "none"))
            /\ CreateMeeting(u, listed, NoGroup, "none")
    \/ \E u \in Users, m \in KnownMeetingIds :
            /\ Saw(JoinMeetingResponse(u, m))
            /\ JoinMeeting(u, m)
    \/ \E u \in Users, m \in KnownMeetingIds : LeaveMeeting(u, m) /\ Unseen
    \/ \E u \in Users, m \in KnownMeetingIds : DeleteMeeting(u, m) /\ Unseen

SpecRoster == Init /\ [][NextRoster]_vars

(***************************************************************************)
(* C3: join is idempotent when applied one request after the other: a join *)
(* of an existing meeting answers without error, and after it exactly one  *)
(* participant row of (meeting, caller) exists.  A second join by the same *)
(* caller is such a join again and leaves the table as the first left it,  *)
(* so the property is stated on the state after every join.                *)
(***************************************************************************)
JoinIdempotent ==
    last.op = "joinMeeting" /\ HasMeeting(last.meetingId)
        => /\ last.status = 200
           /\ RowsOf(last.meetingId, last.userId) = 1

(***************************************************************************)
(* C6: after a successful create by an author with a participants array,   *)
(* the participant rows of the new meeting are exactly one row per         *)
(* distinct user of {author} \cup set(participants).                       *)
(***************************************************************************)
RosterAfterCreate ==
    (last.op = "createMeeting" /\ last.status = 200)
        => \A u \in Users :
                RowsOf(last.meetingId, u) =
                    IF u \in {last.userId} \cup SeqToSet(last.listed) THEN 1 ELSE 0

(***************************************************************************)
(* POST /api/meetings/:id/join, await by await: joinMeeting selects the    *)
(* rows of (meetingId, userId) and, in a second statement, inserts a row   *)
(* when the select returned none.                                          *)
(***************************************************************************)
\* const existing = await db.select()...where(meetingId, userId)
JoinMeetingSelect(c, userId, meetingId) ==
    LET existing == RowsOf(meetingId, userId)
    IN  /\ Idle(c)
        /\ requests' = [requests EXCEPT ![c] =
                Request("joinMeeting", IF existing = 0 THEN "insert" ELSE "done",
                        userId, meetingId, existing)]
        /\ UNCHANGED <<meetingVars, groupVars, conflictVars, last>>

\* if (existing.length === 0) await db.insert(meetingParticipants)...
JoinMeetingInsert(c) ==
    /\ requests[c].op = "joinMeeting"
    /\ requests[c].pc = "insert"
    /\ IF HasMeeting(requests[c].meetingId)
       THEN /\ meetingParticipants' =
                    addMeetingParticipant(meetingParticipants, requests[c].meetingId,
                                          requests[c].userId)
            /\ requests' = [requests EXCEPT ![c].pc = "done"]
       ELSE \* the foreign key of meeting_id rejects the row: 500
            /\ requests' = [requests EXCEPT ![c].pc = "failed"]
            /\ UNCHANGED meetingParticipants
    /\ UNCHANGED <<meetingSuggestions, nextMeetingId, meetingResponses,
                   meetingTags, groupVars, conflictVars, last>>

(***************************************************************************)
(* The join race specification: join requests on several connections,      *)
(* interleaved at their awaits, on existing meetings that were created     *)
(* with an empty participants array.                                       *)
(***************************************************************************)
NextJoinRace ==
    \/ \E u \in Users :
            /\ nextMeetingId <= MaxMeetings
            /\ CreateMeeting(u, <<>>, NoGroup, "none")
            /\ Unseen
    \/ \E c \in Connections, u \in Users, m \in DOMAIN meetingSuggestions :
            JoinMeetingSelect(c, u, m)
    \/ \E c \in Connections : JoinMeetingInsert(c)

SpecJoinRace == Init /\ [][NextJoinRace]_vars

(***************************************************************************)
(* C4: join requests of one caller for one meeting that overlap end with   *)
(* exactly one participant row of (meeting, caller), and none of them      *)
(* fails: once a join of an existing meeting has been answered, it has     *)
(* been answered without error and the caller has one row.                 *)
(***************************************************************************)
JoinRaceOneRow ==
    \A c \in Connections :
        (requests[c].op = "joinMeeting" /\ Idle(c) /\ HasMeeting(requests[c].meetingId))
            => /\ requests[c].pc = "done"
               /\ RowsOf(requests[c].meetingId, requests[c].userId) = 1

\* the rows of the three child tables and of meeting_suggestions that do
\* not belong to a meeting
RowsElsewhere(meetingId) ==
    <<DeleteWhere(meetingParticipants, LAMBDA r : r.meetingId = meetingId),
      SelectSeq(meetingResponses, LAMBDA r : r.meetingId # meetingId),
      DeleteWhere(meetingTags, LAMBDA r : r.meetingId = meetingId),
      [m \in DOMAIN meetingSuggestions \ {meetingId} |-> meetingSuggestions[m]]>>

(***************************************************************************)
(* C5: a delete that succeeds removes the suggestion row and every         *)
(* participant, response and tag row of the meeting, and leaves the rows   *)
(* of every other meeting as they were.                                    *)
(***************************************************************************)
DeleteCascades ==
    [][\A m \in KnownMeetingIds :
          (last'.op = "deleteMeeting" /\ last'.status = 204 /\ last'.meetingId = m)
              => /\ ~HasMeeting(m)'
                 /\ ChildRows(m)' = 0
                 /\ RowsElsewhere(m)' = RowsElsewhere(m)]_vars

\* a delete succeeded on a meeting that had at least three child rows, and
\* another meeting still has its suggestion row and child rows
DeleteCascadesWitness ==
    /\ last.op = "deleteMeeting"
    /\ last.status = 204
    /\ last.prior >= 3
    /\ \E m \in DOMAIN meetingSuggestions : ChildRows(m) >= 2

(***************************************************************************)
(* The group specification: chat groups and their membership rows next to  *)
(* meetings of both scopes, one request at a time.  It records the         *)
(* responses of POST /api/meetings.                                        *)
(***************************************************************************)
NextGroups ==
    \/ \E u \in Users, listed \in {<<>>, <<"A">>, <<"B">>},
          g \in {NoGroup} \cup DOMAIN chatGroups :
            /\ nextMeetingId <= MaxMeetings
            /\ Saw(CreateMeetingResponse(u, listed, "none"))
            /\ CreateMeeting(u, listed, g, "none")
    \/ \E u \in Users, g \in KnownGroupIds, st \in {"accepted", "pending"} :
            /\ nextMeetingId <= MaxMeetings
            /\ CreateGroupMeeting(u, g, st)
            /\ Unseen
    \/ \E u \in Users, m \in KnownMeetingIds : DeleteMeeting(u, m) /\ Unseen
    \/ \E u \in Users, m \in KnownMeetingIds : JoinMeeting(u, m) /\ Unseen
    \/ \E u \in Users, m \in KnownMeetingIds : LeaveMeeting(u, m) /\ Unseen
    \/ \E u \in Users :
            /\ nextGroupId <= MaxGroups
            /\ CreateChatGroup(u)
            /\ Unseen
    \/ \E u \in Users, g \in KnownGroupIds : JoinChatGroup(u, g) /\ Unseen
    \/ \E u \in Users, g \in KnownGroupIds :
            /\ g \in DOMAIN chatGroups => chatGroups[g].memberCount > 0 - MaxUnderflow
            /\ LeaveChatGroup(u, g)
            /\ Unseen
    \/ \E u \in Users, g \in KnownGroupIds :
            /\ BagCardinality(chatGroupMembers) < MaxMemberRows
            /\ AddUserToGroup(g, u)
            /\ Unseen

SpecGroups == Init /\ [][NextGroups]_vars

(***************************************************************************)
(* C7: when an author creates an individually-scoped meeting (no group)    *)
(* whose participants array names another user, the meetings listed for    *)
(* that user (getAllMeetingsForUser) include the new meeting.              *)
(***************************************************************************)
ListedForParticipant ==
    (/\ last.op = "createMeeting"
     /\ last.status = 200
     /\ meetingSuggestions[last.meetingId].groupId = NoGroup)
        => \A u \in SeqToSet(last.listed) :
                RowsOf(last.meetingId, u) >= 1
                    => last.meetingId \in SeqToSet(getAllMeetingsForUser(u))

(***************************************************************************)
(* The counts shown for a meeting (MeetingResponseCard): each is a filter  *)
(* over all the response rows of the meeting.                              *)
(***************************************************************************)
CountOf(meetingId, responseType) ==
    Len(SelectSeq(getMeetingResponses(meetingId),
                  LAMBDA r : r.responseType = responseType))

Aggregate(meetingId) ==
    [acceptedCount |-> CountOf(meetingId, "accepted"),
     rejectedCount |-> CountOf(meetingId, "rejected"),
     counterCount |-> CountOf(meetingId, "counter")]

(***************************************************************************)
(* The response-log specification: responses appended to the log of        *)
(* individually-scoped meetings, one request at a time.                    *)
(***************************************************************************)
NextResponses ==
    \/ \E u \in Users :
            /\ nextMeetingId <= MaxMeetings
            /\ CreateMeeting(u, <<>>, NoGroup, "none")
            /\ Unseen
    \/ \E u \in Users, m \in KnownMeetingIds, t \in ResponseTypes :
            /\ Len(meetingResponses) < MaxLogged
            /\ RespondToMeeting(u, m, t)
            /\ Unseen
    \/ \E u \in Users, m \in KnownMeetingIds : DeleteMeeting(u, m) /\ Unseen

SpecResponses == Init /\ [][NextResponses]_vars

\* the users whose latest response to a meeting has a given type
LatestOfType(meetingId, responseType) ==
    LET log == getMeetingResponses(meetingId)
    IN  {u \in Users :
            \E i \in 1..Len(log) :
                /\ log[i].userId = u
                /\ log[i].responseType = responseType
                /\ \A j \in (i + 1)..Len(log) : log[j].userId # u}

(***************************************************************************)
(* C8: the aggregate of a meeting counts only the latest response of each  *)
(* distinct user: a user who accepted and later rejected is left out of    *)
(* acceptedCount and counted in rejectedCount.                             *)
(***************************************************************************)
AggregateCountsLatest ==
    \A m \in DOMAIN meetingSuggestions :
        Aggregate(m) =
            [acceptedCount |-> Cardinality(LatestOfType(m, "accepted")),
             rejectedCount |-> Cardinality(LatestOfType(m, "rejected")),
             counterCount |-> Cardinality(LatestOfType(m, "counter"))]

(***************************************************************************)
(* Events and conflicts.  An event belongs to a user through its calendar  *)
(* and the connection of the calendar; the chain is modelled by the owner. *)
(***************************************************************************)
Instants == 1..MaxTime

\* getEvents(userId): the events joined to calendars and connections
getEvents(userId) == {e \in DOMAIN events : events[e].userId = userId}

\* getUnresolvedConflicts(userId): conflicts joined through event1Id to the
\* owner, with isResolved = false
getUnresolvedConflicts(userId) ==
    {c \in DOMAIN conflicts :
        /\ conflicts[c].event1Id \in getEvents(userId)
        /\ conflicts[c].isResolved = FALSE}

\* POST /api/events (createEvent)
CreateEvent(owner, startTime, endTime) ==
    /\ events' = (nextEventId :> [userId |-> owner, startTime |-> startTime,
                                  endTime |-> endTime]) @@ events
    /\ nextEventId' = nextEventId + 1
    /\ UNCHANGED <<conflicts, nextConflictId, meetingVars, groupVars>>

\* GET /api/events: a read of the user's events and nothing else
GetEventsResponse(userId) == Response("getEvents", userId, 0, 200, 0, <<>>)

GetEvents(userId) ==
    UNCHANGED <<conflictVars, meetingVars, groupVars>>

\* storage.createConflict: a plain insert; is_resolved defaults to false
\* and the two event ids are foreign keys
CreateConflict(event1Id, event2Id, isResolved) ==
    IF {event1Id, event2Id} \subseteq DOMAIN events
    THEN /\ conflicts' = (nextConflictId :>
                            [event1Id |-> event1Id, event2Id |-> event2Id,
                             conflictType |-> "overlap", isResolved |-> isResolved])
                         @@ conflicts
         /\ nextConflictId' = nextConflictId + 1
         /\ UNCHANGED <<events, nextEventId, meetingVars, groupVars>>
    ELSE UNCHANGED <<conflictVars, meetingVars, groupVars>>

\* storage.resolveConflict: update ... set is_resolved = true where id = ...
resolveConflict(table, id) ==
    [c \in DOMAIN table |->
        IF c = id THEN [table[c] EXCEPT !.isResolved = TRUE] ELSE table[c]]

\* POST /api/conflicts/:id/resolve: the update matches the row or no row,
\* and the handler answers 204 either way
ResolveConflictResponse(userId, id) ==
    Response("resolveConflict", userId, id, 204,
             IF id \in DOMAIN conflicts THEN 1 ELSE 0, <<>>)

ResolveConflict(userId, id) ==
    /\ conflicts' = resolveConflict(conflicts, id)
    /\ UNCHANGED <<events, nextEventId, nextConflictId, meetingVars, groupVars>>

(***************************************************************************)
(* The conflict specification: events, conflict rows and their resolution, *)
(* one request at a time.  It records the responses of the resolve route   *)
(* and of GET /api/events; a recorded response stays until the next one.   *)
(***************************************************************************)
NextConflicts ==
    \/ \E u \in Users, s \in Instants, e \in Instants :
            /\ nextEventId <= MaxEvents
            /\ s < e
            /\ CreateEvent(u, s, e)
            /\ Kept
    \/ \E u \in Users : GetEvents(u) /\ Saw(GetEventsResponse(u))
    \/ \E e1 \in 1..nextEventId, e2 \in 1..nextEventId, r \in BOOLEAN :
            /\ nextConflictId <= MaxConflicts
            /\ CreateConflict(e1, e2, r)
            /\ Kept
    \/ \E u \in Users, c \in 1..nextConflictId :
            /\ Saw(ResolveConflictResponse(u, c))
            /\ ResolveConflict(u, c)

SpecConflicts == Init /\ [][NextConflicts]_vars

\* the half-open intervals of two events overlap
Overlap(e1, e2) ==
    /\ events[e1].startTime < events[e2].endTime
    /\ events[e2].startTime < events[e1].endTime

(***************************************************************************)
(* C9: detection for a user, which runs when the user's events are read,   *)
(* leaves a conflict row (conflictType overlap) of a pair (e1, e2) of the  *)
(* user's events with e1 < e2 exactly when the half-open intervals of the  *)
(* two overlap: none for events that only touch, exactly one for events    *)
(* that strictly overlap.                                                  *)
(***************************************************************************)
DetectMaterializesOverlaps ==
    last.op = "getEvents"
        => \A e1, e2 \in getEvents(last.userId) :
                e1 < e2 =>
                    Cardinality({c \in DOMAIN conflicts :
                                    /\ conflicts[c].event1Id = e1
                                    /\ conflicts[c].event2Id = e2
                                    /\ conflicts[c].conflictType = "overlap"})
                        = IF Overlap(e1, e2) THEN 1 ELSE 0

(***************************************************************************)
(* C10: resolve is one-directional: once a resolve of a conflict id has    *)
(* succeeded, in every later state the conflict of that id has             *)
(* isResolved = true and no user's unresolved conflicts include the id,    *)
(* whatever conflicts are created afterwards.                              *)
(***************************************************************************)
ResolveMonotonic ==
    (last.op = "resolveConflict" /\ last.status = 204)
        => /\ last.meetingId \in DOMAIN conflicts
                => conflicts[last.meetingId].isResolved = TRUE
           /\ \A u \in Users : last.meetingId \notin getUnresolvedConflicts(u)

(***************************************************************************)
(* The routes that change a suggestion after it was created.               *)
(***************************************************************************)
\* PUT /api/meetings/:id
UpdateMeetingStatus(userId, meetingId) ==
    IF ~HasMeeting(meetingId) \/ meetingSuggestions[meetingId].suggestedById # userId
    THEN 403 ELSE 200

UpdateMeetingResponse(userId, meetingId) ==
    Response("updateMeeting", userId, meetingId,
             UpdateMeetingStatus(userId, meetingId), 0, <<>>)

UpdateMeeting(userId, meetingId, title, isPrivate) ==
    IF UpdateMeetingStatus(userId, meetingId) = 403
    THEN UNCHANGED <<meetingVars, groupVars, conflictVars>>
    ELSE /\ meetingSuggestions' =
                updateMeetingSuggestion(
                    updateMeetingSuggestion(meetingSuggestions, meetingId,
                                            "title", title),
                    meetingId, "isPrivate", isPrivate)
         /\ UNCHANGED <<nextMeetingId, meetingParticipants, meetingResponses,
                        meetingTags, groupVars, conflictVars>>

\* POST /api/meetings/:id/background; the upload succeeds or throws
UpdateBackgroundStatus(userId, meetingId, image) ==
    IF ~HasMeeting(meetingId) \/ meetingSuggestions[meetingId].suggestedById # userId
    THEN 403
    ELSE IF image = "fail" THEN 500 ELSE 200

UpdateBackgroundResponse(userId, meetingId, image) ==
    Response("updateBackground", userId, meetingId,
             UpdateBackgroundStatus(userId, meetingId, image), 0, <<>>)

UpdateBackground(userId, meetingId, image) ==
    IF UpdateBackgroundStatus(userId, meetingId, image) # 200
    THEN UNCHANGED <<meetingVars, groupVars, conflictVars>>
    ELSE /\ meetingSuggestions' =
                updateMeetingSuggestion(meetingSuggestions, meetingId,
                                        "backgroundImageUrl", TRUE)
         /\ UNCHANGED <<nextMeetingId, meetingParticipants, meetingResponses,
                        meetingTags, groupVars, conflictVars>>

(***************************************************************************)
(* The author specification: suggestions with participants, responses and  *)
(* tags under update, background update and delete by any caller, one      *)
(* request at a time.  It records the responses of those three routes.     *)
(***************************************************************************)
NextAuthor ==
    \/ \E u \in Users :
            /\ nextMeetingId <= MaxEdited
            /\ CreateMeeting(u, <<>>, NoGroup, "none")
            /\ Unseen
    \/ \E u \in Users, m \in KnownMeetingIds, t \in Titles :
            /\ Saw(UpdateMeetingResponse(u, m))
            /\ UpdateMeeting(u, m, t, FALSE)
    \/ \E u \in Users, m \in KnownMeetingIds, image \in {"ok", "fail"} :
            /\ Saw(UpdateBackgroundResponse(u, m, image))
            /\ UpdateBackground(u, m, image)
    \/ \E u \in Users, m \in KnownMeetingIds :
            /\ Saw(DeleteMeetingResponse(u, m))
            /\ DeleteMeeting(u, m)
    \/ \E u \in Users, m \in KnownMeetingIds :
            /\ Len(meetingResponses) < MaxResponses
            /\ RespondToMeeting(u, m, "accepted")
            /\ Unseen
    \/ \E u \in Users, m \in KnownMeetingIds, t \in TagIds :
            /\ BagCardinality(meetingTags) < MaxTagRows
            /\ AddMeetingTag(u, m, t)
            /\ Unseen

SpecAuthor == Init /\ [][NextAuthor]_vars

(***************************************************************************)
(* C11: only the author can change or remove a meeting: an update, a       *)
(* background update or a delete of an existing meeting by a caller who is *)
(* not its author answers 403 Unauthorized and leaves the suggestion row   *)
(* and the participant, response and tag rows unchanged.                   *)
(***************************************************************************)
OnlyAuthorMutates ==
    [][\A m \in DOMAIN meetingSuggestions :
          (/\ last'.op \in {"updateMeeting", "updateBackground", "deleteMeeting"}
           /\ last'.meetingId = m
           /\ last'.userId # meetingSuggestions[m].suggestedById)
              => /\ last'.status = 403
                 /\ UNCHANGED meetingVars]_vars

\* a caller who is not the author was refused the delete of a meeting that
\* has participant, response and tag rows
OnlyAuthorMutatesWitness ==
    /\ last.op = "deleteMeeting"
    /\ last.status = 403
    /\ HasMeeting(last.meetingId)
    /\ meetingSuggestions[last.meetingId].suggestedById # last.userId
    /\ RowsOf(last.meetingId, meetingSuggestions[last.meetingId].suggestedById) = 1
    /\ getMeetingResponses(last.meetingId) # <<>>
    /\ \E t \in TagIds : BagIn(TagRow(last.meetingId, t), meetingTags)

(***************************************************************************)
(* The create specification: POST /api/meetings with participants arrays   *)
(* that may name an id that is not in users, with and without an image,    *)
(* one request at a time.  It records the responses of the create route.   *)
(***************************************************************************)
\* an id of no user
Nobody == "nobody"

NextCreate ==
    \/ \E u \in Users, image \in Images,
          listed \in {<<>>, <<"B">>, <<Nobody>>, <<"B", Nobody>>} :
            /\ nextMeetingId <= MaxMeetings
            /\ Saw(CreateMeetingResponse(u, listed, image))
            /\ CreateMeeting(u, listed, NoGroup, image)
    \/ \E u \in Users, m \in KnownMeetingIds : DeleteMeeting(u, m) /\ Unseen
    \/ \E u \in Users, m \in KnownMeetingIds : LeaveMeeting(u, m) /\ Unseen

SpecCreate == Init /\ [][NextCreate]_vars

(***************************************************************************)
(* C12: create is all-or-nothing: when a create request is answered with   *)
(* an error, whichever step failed, no suggestion row and no participant   *)
(* row made by that request is left in the tables.                         *)
(***************************************************************************)
CreateAllOrNothing ==
    (last.op = "createMeeting" /\ last.status >= 400)
        => /\ ~HasMeeting(last.meetingId)
           /\ getMeetingParticipants(last.meetingId) = {}

(***************************************************************************)
(* The image specification: POST /api/meetings with an image whose upload  *)
(* succeeds or fails, with participants arrays that name users only, next  *)
(* to join and delete, one request at a time.  It records the responses of *)
(* the create route; an error that is not the quota is the failed upload.  *)
(***************************************************************************)
NextImage ==
    \/ \E u \in Users, image \in Images, listed \in {<<>>, <<"B">>} :
            /\ nextMeetingId <= MaxMeetings
            /\ Saw(CreateMeetingResponse(u, listed, image))
            /\ CreateMeeting(u, listed, NoGroup, image)
    \/ \E u \in Users, m \in KnownMeetingIds : JoinMeeting(u, m) /\ Unseen
    \/ \E u \in Users, m \in KnownMeetingIds : DeleteMeeting(u, m) /\ Unseen

SpecImage == Init /\ [][NextImage]_vars

(***************************************************************************)
(* C13: when a create carries an image and the upload fails, the           *)
(* suggestion just inserted is removed again together with any participant *)
(* row of it, the caller gets an error, and the suggestions and the        *)
(* participants are the ones of before the request.                        *)
(***************************************************************************)
ImageFailureRollsBack ==
    [][(last'.op = "createMeeting" /\ last'.status = 500)
          => /\ meetingSuggestions' = meetingSuggestions
             /\ meetingParticipants' = meetingParticipants
             /\ meetingResponses' = meetingResponses
             /\ meetingTags' = meetingTags
             /\ nextMeetingId' = last'.meetingId + 1]_vars

\* a create with a participants array failed at the upload while another
\* meeting and its participant rows exist
ImageFailureRollsBackWitness ==
    /\ last.op = "createMeeting"
    /\ last.status = 500
    /\ last.listed # <<>>
    /\ ~HasMeeting(last.meetingId)
    /\ getMeetingParticipants(last.meetingId) = {}
    /\ \E m \in DOMAIN meetingSuggestions : getMeetingParticipants(m) # {}

(***************************************************************************)
(* The list specification: meetings of both scopes created through both    *)
(* create routes, next to chat groups whose membership rows may repeat,    *)
(* one request at a time.  It records no response.                         *)
(***************************************************************************)
NextLists ==
    \/ \E u \in Users, g \in {NoGroup} \cup DOMAIN chatGroups :
            /\ nextMeetingId <= MaxMeetings
            /\ CreateMeeting(u, <<>>, g, "none")
            /\ Unseen
    \/ \E u \in Users, g \in KnownGroupIds :
            /\ nextMeetingId <= MaxMeetings
            /\ CreateGroupMeeting(u, g, "accepted")
            /\ Unseen
    \/ \E u \in Users, m \in KnownMeetingIds :
            /\ DeleteMeeting(u, m)
            /\ Unseen
    \/ \E u \in Users :
            /\ nextGroupId <= MaxGroups
            /\ CreateChatGroup(u)
            /\ Unseen
    \/ \E u \in Users, g \in KnownGroupIds : JoinChatGroup(u, g) /\ Unseen
    \/ \E u \in Users, g \in KnownGroupIds :
            /\ BagCardinality(chatGroupMembers) < MaxMemberRows
            /\ AddUserToGroup(g, u)
            /\ Unseen

SpecLists == Init /\ [][NextLists]_vars

\* a sequence without a repeated element
NoRepeat(seq) == \A i, j \in 1..Len(seq) : seq[i] = seq[j] => i = j

(***************************************************************************)
(* C14: the list of a user never holds a meeting id twice: a meeting the   *)
(* user authored in a group the user belongs to appears once, and so does  *)
(* a meeting of a group in which the user has several membership rows.     *)
(***************************************************************************)
ListForUserNoRepeat ==
    \A u \in Users : NoRepeat(getAllMeetingsForUser(u))

\* a user authored a meeting in a group in which the user has two
\* membership rows: the two queries return the meeting three times
ListForUserNoRepeatWitness ==
    \E u \in Users, m \in DOMAIN meetingSuggestions :
        /\ m \in userMeetings(u)
        /\ m \in DOMAIN groupMeetings(u)
        /\ groupMeetings(u)[m] >= 2
        /\ Len(SelectSeq(allMeetings(u), LAMBDA x : x = m)) = 3
        /\ Len(SelectSeq(getAllMeetingsForUser(u), LAMBDA x : x = m)) = 1

(***************************************************************************)
(* C15: the meetings listed for a user are exactly the meetings scoped to  *)
(* a group the user is a member of together with the meetings the user     *)
(* authored: every meeting of that union is listed and no other is.        *)
(***************************************************************************)
ListForUserIsUnion ==
    \A u \in Users :
        SeqToSet(getAllMeetingsForUser(u)) =
            {m \in DOMAIN meetingSuggestions :
                \/ \E g \in DOMAIN chatGroups :
                        /\ meetingSuggestions[m].groupId = g
                        /\ BagIn(MemberRow(g, u), chatGroupMembers)
                \/ meetingSuggestions[m].suggestedById = u}

\* one user is listed a meeting of another author through a group and is
\* not listed another existing meeting, and some user is listed an
\* individually-scoped meeting of their own
ListForUserIsUnionWitness ==
    /\ \E u \in Users, m, n \in DOMAIN meetingSuggestions :
            /\ meetingSuggestions[m].suggestedById # u
            /\ m \in SeqToSet(getAllMeetingsForUser(u))
            /\ n \notin SeqToSet(getAllMeetingsForUser(u))
    /\ \E u \in Users, m \in DOMAIN meetingSuggestions :
            /\ meetingSuggestions[m].suggestedById = u
            /\ meetingSuggestions[m].groupId = NoGroup
            /\ m \in SeqToSet(getAllMeetingsForUser(u))

(***************************************************************************)
(* The read side next to the list of a user.                               *)
(***************************************************************************)
\* getAllMeetings: if (participantCount[0].count < 100)
ParticipantCap == 100

\* getAllMeetings: every suggestion, latest first, that has fewer
\* participant rows than the cap; getAllMeetingsUpToCap is the filter with
\* count <= 100
getAllMeetingsUpToCap ==
    SortDesc(ResultRows({m \in DOMAIN meetingSuggestions :
                            SumOver(getMeetingParticipants(m), meetingParticipants)
                                <= ParticipantCap},
                        [m \in DOMAIN meetingSuggestions |-> 1]))
getAllMeetings ==
    SortDesc(ResultRows({m \in DOMAIN meetingSuggestions :
                            SumOver(getMeetingParticipants(m), meetingParticipants)
                                < ParticipantCap},
                        [m \in DOMAIN meetingSuggestions |-> 1]))

\* getAllMeetingResponsesForUser: the responses of the meetings listed for
\* the user, latest first
RECURSIVE Reverse(_)
Reverse(seq) ==
    IF seq = <<>> THEN <<>> ELSE Reverse(Tail(seq)) \o <<Head(seq)>>

getAllMeetingResponsesForUser(userId) ==
    LET meetingIds == SeqToSet(getAllMeetingsForUser(userId))
    IN  IF meetingIds = {} THEN <<>>
        ELSE Reverse(SelectSeq(meetingResponses,
                               LAMBDA r : r.meetingId \in meetingIds))

(***************************************************************************)
(* The removal specification: meetings of both scopes that A creates and   *)
(* B responds to, next to a chat group of A that B may join, under delete  *)
(* by either, one request at a time.  It records the responses of the      *)
(* delete route; a recorded response stays until the next delete.          *)
(***************************************************************************)
NextRemoval ==
    \/ \E g \in {NoGroup} \cup DOMAIN chatGroups :
            /\ nextMeetingId <= MaxMeetings
            /\ CreateMeeting("A", <<>>, g, "none")
            /\ Kept
    \/ \E m \in KnownMeetingIds :
            /\ Len(meetingResponses) < MaxResponses
            /\ RespondToMeeting("B", m, "accepted")
            /\ Kept
    \/ \E u \in Users, m \in KnownMeetingIds :
            /\ Saw(DeleteMeetingResponse(u, m))
            /\ DeleteMeeting(u, m)
    \/ /\ nextGroupId <= MaxGroups
       /\ CreateChatGroup("A")
       /\ Kept
    \/ \E g \in KnownGroupIds : JoinChatGroup("B", g) /\ Kept

SpecRemoval == Init /\ [][NextRemoval]_vars

(***************************************************************************)
(* C16: after the author has deleted a meeting, the list of no user and    *)
(* the open list hold its id, and the responses returned for any user hold *)
(* no response to it, in every later state.                                *)
(***************************************************************************)
DeletedIsGone ==
    (last.op = "deleteMeeting" /\ last.status = 204)
        => /\ last.meetingId \notin SeqToSet(getAllMeetings)
           /\ \A u \in Users :
                /\ last.meetingId \notin SeqToSet(getAllMeetingsForUser(u))
                /\ \A i \in 1..Len(getAllMeetingResponsesForUser(u)) :
                        getAllMeetingResponsesForUser(u)[i].meetingId # last.meetingId

\* a meeting that had participant and response rows was deleted, and a
\* meeting created after it is listed with a response
DeletedIsGoneWitness ==
    /\ last.op = "deleteMeeting"
    /\ last.status = 204
    /\ last.prior >= 2
    /\ \E u \in Users, m \in DOMAIN meetingSuggestions :
            /\ m > last.meetingId
            /\ m \in SeqToSet(getAllMeetingsForUser(u))
            /\ m \in SeqToSet(getAllMeetings)
            /\ getAllMeetingResponsesForUser(u) # <<>>

(***************************************************************************)
(* C17: a request that names a meeting id that does not exist fails with   *)
(* NotFound (404) and changes nothing: an update or a delete of a meeting  *)
(* that was never created or is already deleted is answered 404, not 403.  *)
(* A delete answered 204 is left out: it removed the meeting it names.     *)
(***************************************************************************)
MissingIsNotFound ==
    (/\ last.op \in {"updateMeeting", "deleteMeeting"}
     /\ last.status # 204
     /\ ~HasMeeting(last.meetingId))
        => last.status = 404


\* C18: every meeting suggestion has status "accepted" at the moment it is
\* created, on every creation path and whatever status the caller supplied.
\* POST /api/chat-groups/:id/meetings parses {...req.body, groupId,
\* suggestedById} with insertMeetingSuggestionSchema, which keeps status.
CreatedAccepted ==
    [][\A m \in DOMAIN meetingSuggestions' \ DOMAIN meetingSuggestions :
            meetingSuggestions'[m].status = "accepted"]_vars

(***************************************************************************)
(* The participation handlers and the response log: A authors meetings, B  *)
(* joins and responds, either of them leaves, A deletes.                   *)
(***************************************************************************)
NextLog ==
    \/ \E listed \in {<<>>, <<"B">>} :
            /\ nextMeetingId <= MaxEdited
            /\ CreateMeeting("A", listed, NoGroup, "none")
            /\ Unseen
    \/ \E m \in KnownMeetingIds :
            /\ Saw(JoinMeetingResponse("B", m))
            /\ JoinMeeting("B", m)
    \/ \E u \in Users, m \in KnownMeetingIds :
            /\ Saw(LeaveMeetingResponse(u, m))
            /\ LeaveMeeting(u, m)
    \/ \E m \in KnownMeetingIds, t \in {"accepted", "rejected"} :
            /\ Len(meetingResponses) < MaxLogged
            /\ Saw(RespondToMeetingResponse("B", m))
            /\ RespondToMeeting("B", m, t)
    \/ \E m \in KnownMeetingIds :
            /\ Saw(DeleteMeetingResponse("A", m))
            /\ DeleteMeeting("A", m)

SpecLog == Init /\ [][NextLog]_vars

\* C19: Respond, Join and Leave leave every field of every meeting
\* suggestion as it was, whatever the responses logged so far and also
\* when the last participant leaves.
ParticipationKeepsSuggestions ==
    [][last'.op \in {"respondToMeeting", "joinMeeting", "leaveMeeting"}
            => meetingSuggestions' = meetingSuggestions]_vars

\* the last participant has left a meeting that has responses, and the
\* meeting still has the status it was created with
ParticipationKeepsSuggestionsWitness ==
    /\ last.op = "leaveMeeting"
    /\ last.prior > 0
    /\ HasMeeting(last.meetingId)
    /\ getMeetingParticipants(last.meetingId) = {}
    /\ Len(getMeetingResponses(last.meetingId)) > 0
    /\ meetingSuggestions[last.meetingId].status = "accepted"

\* the rows of a log that belong to other meetings than meetingId
RowsOfOthers(responses, meetingId) ==
    SelectSeq(responses, LAMBDA r : r.meetingId # meetingId)

\* C20: the response log is append-only under Respond: a successful respond
\* adds exactly one row, of the responding user and meeting, behind the
\* earlier rows, which all stay as they were (the same user's earlier rows
\* for the same meeting included); a respond that fails, a join and a leave
\* leave the log alone, and a delete removes rows of the deleted meeting only.
ResponseLogAppendOnly ==
    [][/\ (last'.op = "respondToMeeting" /\ last'.status = 201)
            => /\ Len(meetingResponses') = Len(meetingResponses) + 1
               /\ SubSeq(meetingResponses', 1, Len(meetingResponses)) = meetingResponses
               /\ meetingResponses'[Len(meetingResponses')].meetingId = last'.meetingId
               /\ meetingResponses'[Len(meetingResponses')].userId = last'.userId
       /\ (last'.op = "respondToMeeting" /\ last'.status # 201)
            => meetingResponses' = meetingResponses
       /\ last'.op \in {"joinMeeting", "leaveMeeting"}
            => meetingResponses' = meetingResponses
       /\ last'.op = "deleteMeeting"
            => RowsOfOthers(meetingResponses', last'.meetingId) =
               RowsOfOthers(meetingResponses, last'.meetingId)]_vars

\* a user has responded to a meeting again and holds two rows for it
ResponseLogAppendOnlyWitness ==
    /\ last.op = "respondToMeeting"
    /\ last.status = 201
    /\ last.prior > 0
    /\ Len(SelectSeq(meetingResponses,
                     LAMBDA r : r.meetingId = last.meetingId
                                /\ r.userId = last.userId)) > 1

(***************************************************************************)
(* The update specification: A authors meetings, B joins and responds,     *)
(* and either of them sends PUT /api/meetings/:id with a body that carries *)
(* a title of any length and a status the handler does not read.           *)
(***************************************************************************)
\* the length of the title column as the schema declares it
TitleMax == 16
LongTitle == "seventeen letters"

\* req.body of PUT /api/meetings/:id
UpdateBodies ==
    [title : {"second", LongTitle}, isPrivate : BOOLEAN, status : {"cancelled"}]

\* const { title, description, location, proposedDateTime, duration,
\* isPrivate } = req.body: the fields the handler hands to the store
UpdateData(body) == [title |-> body.title, isPrivate |-> body.isPrivate]

NextUpdate ==
    \/ /\ nextMeetingId <= MaxMeetings
       /\ CreateMeeting("A", <<>>, NoGroup, "none")
       /\ Unseen
    \/ \E m \in KnownMeetingIds : JoinMeeting("B", m) /\ Unseen
    \/ \E m \in KnownMeetingIds :
            /\ Len(meetingResponses) < MaxResponses
            /\ RespondToMeeting("B", m, "accepted")
            /\ Unseen
    \/ \E u \in Users, m \in KnownMeetingIds, body \in UpdateBodies :
            /\ Saw(UpdateMeetingResponse(u, m))
            /\ UpdateMeeting(u, m, UpdateData(body).title, UpdateData(body).isPrivate)

SpecUpdate == Init /\ [][NextUpdate]_vars

\* C21: every stored meeting suggestion has a title of at most 16
\* characters, whatever title length the caller sends.  Neither route
\* bounds the title, and the column is text, which has no length.
TitleBounded ==
    \A m \in DOMAIN meetingSuggestions :
        Len(meetingSuggestions[m].title) <= TitleMax

\* C22: a successful update by the author changes the title and isPrivate
\* (and the other editable fields, which travel with the title) of that
\* meeting only:
\* suggestedById, groupId and status of the meeting, every other meeting,
\* the participant rows and the response rows stay as they were, whatever
\* else the request body carries.
UpdateChangesEditableOnly ==
    [][(last'.op = "updateMeeting" /\ last'.status = 200)
        => /\ DOMAIN meetingSuggestions' = DOMAIN meetingSuggestions
           /\ \A m \in DOMAIN meetingSuggestions :
                \A f \in DOMAIN meetingSuggestions[m] :
                    (m # last'.meetingId \/ f \notin {"title", "isPrivate"})
                        => meetingSuggestions'[m][f] = meetingSuggestions[m][f]
           /\ meetingParticipants' = meetingParticipants
           /\ meetingResponses' = meetingResponses]_vars

\* the author has retitled one of two meetings that have participant and
\* response rows; the other meeting keeps the title it was created with
UpdateChangesEditableOnlyWitness ==
    /\ last.op = "updateMeeting"
    /\ last.status = 200
    /\ meetingSuggestions[last.meetingId].title # "first"
    /\ \E m \in DOMAIN meetingSuggestions :
            m # last.meetingId /\ meetingSuggestions[m].title = "first"
    /\ RowsOf(last.meetingId, "B") > 0
    /\ Len(getMeetingResponses(last.meetingId)) > 0

(***************************************************************************)
(* The visibility specification: A authors meetings and marks them private *)
(* or public, B joins and leaves.                                          *)
(***************************************************************************)
NextPrivate ==
    \/ /\ nextMeetingId <= MaxMeetings
       /\ CreateMeeting("A", <<>>, NoGroup, "none")
       /\ Unseen
    \/ \E m \in KnownMeetingIds, isPrivate \in BOOLEAN :
            /\ UpdateMeeting("A", m, "second", isPrivate)
            /\ Unseen
    \/ \E m \in KnownMeetingIds :
            /\ Saw(JoinMeetingResponse("B", m))
            /\ JoinMeeting("B", m)
    \/ \E m \in KnownMeetingIds :
            /\ Saw(LeaveMeetingResponse("B", m))
            /\ LeaveMeeting("B", m)

SpecPrivate == Init /\ [][NextPrivate]_vars

\* C23: a join of a private meeting by a user who is not its author and has
\* no approval adds no participant row.  The store has no approval table
\* and joinMeeting does not read isPrivate.
PrivateJoinNeedsApproval ==
    [][(/\ last'.op = "joinMeeting"
        /\ HasMeeting(last'.meetingId)
        /\ meetingSuggestions[last'.meetingId].isPrivate
        /\ meetingSuggestions[last'.meetingId].suggestedById # last'.userId)
            => meetingParticipants' = meetingParticipants]_vars

(***************************************************************************)
(* The discovery specification: A creates meetings whose participants      *)
(* array names B up to the cap of getAllMeetings, B joins, either leaves.  *)
(***************************************************************************)
\* req.body.participants naming one user n times
Repeated(userId, n) == [i \in 1..n |-> userId]

\* the number of participant rows of a meeting: count(*) where meetingId = id
participantCount(meetingId) ==
    SumOver(getMeetingParticipants(meetingId), meetingParticipants)

NextOpen ==
    \/ \E listed \in {<<>>, Repeated("B", ParticipantCap - 2),
                      Repeated("B", ParticipantCap - 1)} :
            /\ nextMeetingId <= MaxMeetings
            /\ CreateMeeting("A", listed, NoGroup, "none")
            /\ Unseen
    \/ \E m \in KnownMeetingIds :
            /\ Saw(JoinMeetingResponse("B", m))
            /\ JoinMeeting("B", m)
    \/ \E u \in Users, m \in KnownMeetingIds :
            /\ Saw(LeaveMeetingResponse(u, m))
            /\ LeaveMeeting(u, m)

SpecOpen == Init /\ [][NextOpen]_vars

\* C24: the list of open meetings holds a meeting exactly when the
\* participant table has fewer than 100 rows for it at the time of the
\* read: it is absent once the count reaches the cap and present again
\* when a leave brings the count under it.
OpenIffUnderCap ==
    \A m \in DOMAIN meetingSuggestions :
        (m \in SeqToSet(getAllMeetings)) <=> (participantCount(m) < ParticipantCap)

\* a leave has brought a meeting from the cap to one row under it, and the
\* meeting is listed again
OpenIffUnderCapWitness ==
    /\ last.op = "leaveMeeting"
    /\ HasMeeting(last.meetingId)
    /\ participantCount(last.meetingId) + last.prior = ParticipantCap
    /\ last.prior > 0
    /\ last.meetingId \in SeqToSet(getAllMeetings)

(***************************************************************************)
(* GET /api/meetings/responses and GET /api/meeting-responses/user: the    *)
(* read of the responses of a user's meetings, with a store that answers   *)
(* or throws.                                                              *)
(***************************************************************************)
Stores == {"ok", "fail"}

\* res.json(responses) in the try block, res.json([]) in the catch block;
\* GetResponsesStatusPropagates is the catch block of GET /api/meetings/user
GetResponsesStatusPropagates(store) == IF store = "fail" THEN 500 ELSE 200
GetResponsesStatus(store) == 200

GetResponsesBody(userId, store) ==
    IF store = "fail" THEN <<>> ELSE getAllMeetingResponsesForUser(userId)

\* prior holds the number of store calls of the request that threw
GetResponsesResponse(userId, store) ==
    Response("getResponses", userId, 0, GetResponsesStatus(store),
             IF store = "fail" THEN 1 ELSE 0, GetResponsesBody(userId, store))

GetResponses(userId, store) == UNCHANGED <<meetingVars, groupVars, conflictVars>>

NextFetch ==
    \/ \E u \in Users :
            /\ nextMeetingId <= MaxMeetings
            /\ CreateMeeting(u, <<>>, NoGroup, "none")
            /\ Unseen
    \/ \E u \in Users, m \in KnownMeetingIds :
            /\ Len(meetingResponses) < MaxLogged
            /\ RespondToMeeting(u, m, "accepted")
            /\ Unseen
    \/ \E u \in Users, store \in Stores :
            /\ Saw(GetResponsesResponse(u, store))
            /\ GetResponses(u, store)

SpecFetch == Init /\ [][NextFetch]_vars

\* C25: when the store fails while the responses of a user's meetings are
\* fetched, the caller gets a successful answer holding an empty
\* collection, and no table changes.
FetchFailureDegrades ==
    [][(last'.op = "getResponses" /\ last'.prior = 1)
        => /\ last'.status = 200
           /\ last'.listed = <<>>
           /\ UNCHANGED <<meetingVars, groupVars, conflictVars>>]_vars

\* the store has failed for a user whose meetings have responses
FetchFailureDegradesWitness ==
    /\ last.op = "getResponses"
    /\ last.prior = 1
    /\ last.listed = <<>>
    /\ getAllMeetingResponsesForUser(last.userId) # <<>>

\* C26: the author of every existing meeting has a participant row for it.
\* leaveMeeting deletes the rows of any (meeting, user) pair, the author's
\* included, and POST /api/chat-groups/:id/meetings inserts no participant
\* row at all.
AuthorIsParticipant ==
    \A m \in DOMAIN meetingSuggestions :
        RowsOf(m, meetingSuggestions[m].suggestedById) > 0

(***************************************************************************)
(* DELETE /api/meetings/:id on a connection, one storage call per step.    *)
(* deleteMeetingSuggestion runs its four deletes outside a transaction.    *)
(***************************************************************************)
\* the rows of meeting_participants and meeting_responses that reference
\* the meeting; their foreign keys have no ON DELETE action
ReferencingRows(meetingId) ==
    SumOver(getMeetingParticipants(meetingId), meetingParticipants)
    + Len(getMeetingResponses(meetingId))

\* await storage.getMeetingSuggestion(meetingId) and the author test; count
\* holds 1 when the request passed the test
DeleteMeetingCheck(c, userId, meetingId) ==
    /\ Idle(c)
    /\ requests' = [requests EXCEPT ![c] =
            IF DeleteMeetingStatus(userId, meetingId) = 403
            THEN Request("deleteMeeting", "failed", userId, meetingId, 0)
            ELSE Request("deleteMeeting", "participants", userId, meetingId, 1)]
    /\ UNCHANGED <<meetingVars, groupVars, conflictVars, last>>

\* await db.delete(meetingParticipants).where(meetingId = id)
DeleteMeetingParticipants(c) ==
    /\ requests[c].op = "deleteMeeting"
    /\ requests[c].pc = "participants"
    /\ meetingParticipants' =
            deleteParticipantsOf(meetingParticipants, requests[c].meetingId)
    /\ requests' = [requests EXCEPT ![c].pc = "responses"]
    /\ UNCHANGED <<meetingSuggestions, nextMeetingId, meetingResponses,
                   meetingTags, groupVars, conflictVars, last>>

\* await db.delete(meetingResponses).where(meetingId = id)
DeleteMeetingResponses(c) ==
    /\ requests[c].op = "deleteMeeting"
    /\ requests[c].pc = "responses"
    /\ meetingResponses' = deleteResponsesOf(meetingResponses, requests[c].meetingId)
    /\ requests' = [requests EXCEPT ![c].pc = "tags"]
    /\ UNCHANGED <<meetingSuggestions, nextMeetingId, meetingParticipants,
                   meetingTags, groupVars, conflictVars, last>>

\* await db.delete(meetingTags).where(meetingId = id)
DeleteMeetingTags(c) ==
    /\ requests[c].op = "deleteMeeting"
    /\ requests[c].pc = "tags"
    /\ meetingTags' = deleteTagsOf(meetingTags, requests[c].meetingId)
    /\ requests' = [requests EXCEPT ![c].pc = "suggestion"]
    /\ UNCHANGED <<meetingSuggestions, nextMeetingId, meetingParticipants,
                   meetingResponses, groupVars, conflictVars, last>>

\* await db.delete(meetingSuggestions).where(id = id): a referencing row
\* makes the delete throw, and the handler answers 500
DeleteMeetingSuggestion(c) ==
    /\ requests[c].op = "deleteMeeting"
    /\ requests[c].pc = "suggestion"
    /\ IF HasMeeting(requests[c].meetingId) /\ ReferencingRows(requests[c].meetingId) > 0
       THEN /\ requests' = [requests EXCEPT ![c].pc = "failed"]
            /\ UNCHANGED <<meetingSuggestions, meetingTags>>
       ELSE /\ meetingSuggestions' =
                    deleteSuggestionRow(meetingSuggestions, requests[c].meetingId)
            /\ meetingTags' = deleteTagsOf(meetingTags, requests[c].meetingId)
            /\ requests' = [requests EXCEPT ![c].pc = "done"]
    /\ UNCHANGED <<nextMeetingId, meetingParticipants, meetingResponses,
                   groupVars, conflictVars, last>>

(***************************************************************************)
(* The delete race specification: deletes by the author, joins and         *)
(* responds by B, on several connections, interleaved at their awaits.     *)
(***************************************************************************)
NextDeleteRace ==
    \/ /\ nextMeetingId <= MaxEdited
       /\ CreateMeeting("A", <<>>, NoGroup, "none")
       /\ Unseen
    \/ \E c \in Connections, m \in DOMAIN meetingSuggestions :
            DeleteMeetingCheck(c, "A", m)
    \/ \E c \in Connections : DeleteMeetingParticipants(c)
    \/ \E c \in Connections : DeleteMeetingResponses(c)
    \/ \E c \in Connections : DeleteMeetingTags(c)
    \/ \E c \in Connections : DeleteMeetingSuggestion(c)
    \/ \E c \in Connections, m \in DOMAIN meetingSuggestions :
            JoinMeetingSelect(c, "B", m)
    \/ \E c \in Connections : JoinMeetingInsert(c)
    \/ \E m \in KnownMeetingIds :
            /\ Len(meetingResponses) < MaxResponses
            /\ RespondToMeeting("B", m, "accepted")
            /\ Kept

SpecDeleteRace == Init /\ [][NextDeleteRace]_vars

\* C27: a delete by the author that runs next to a join or a respond on the
\* same meeting ends, in every interleaving, with the suggestion row gone
\* and no participant or response row referencing the meeting.
DeleteRaceCompletes ==
    \A c \in Connections :
        (/\ requests[c].op = "deleteMeeting"
         /\ requests[c].count = 1
         /\ Idle(c))
            => /\ ~HasMeeting(requests[c].meetingId)
               /\ ReferencingRows(requests[c].meetingId) = 0

\* C28: a resolve called by a user changes isResolved only on a conflict
\* whose events belong to that user, so no user takes a conflict off
\* another user's unresolved list.  The route hands the id to
\* resolveConflict without reading the caller.
ResolveOwnOnly ==
    [][last'.op = "resolveConflict"
        => \A c \in DOMAIN conflicts :
                conflicts'[c].isResolved # conflicts[c].isResolved
                    => {conflicts[c].event1Id, conflicts[c].event2Id}
                            \subseteq getEvents(last'.userId)]_vars

\* C29: when a respond succeeds the meeting exists and the responding user
\* is a participant of it or a member of the group it is scoped to.  Both
\* respond routes hand the parsed body to respondToMeeting, and only the
\* foreign keys of the row are tested.
RespondEntitled ==
    [][(last'.op = "respondToMeeting" /\ last'.status = 201)
        => /\ HasMeeting(last'.meetingId)
           /\ \/ RowsOf(last'.meetingId, last'.userId) > 0
              \/ /\ meetingSuggestions[last'.meetingId].groupId # NoGroup
                 /\ BagIn(MemberRow(meetingSuggestions[last'.meetingId].groupId,
                                    last'.userId), chatGroupMembers)]_vars

\* C30: for every group the stored memberCount equals the number of its
\* membership rows and is never negative.  leaveChatGroup decrements the
\* count whether or not a row was deleted, and addUserToGroup inserts a row
\* without touching the count.
MemberCountMatchesRows ==
    \A g \in DOMAIN chatGroups :
        /\ chatGroups[g].memberCount >= 0
        /\ chatGroups[g].memberCount =
                SumOver({r \in DOMAIN chatGroupMembers : r.groupId = g},
                        chatGroupMembers)

=============================================================================
